---- MODULE Spec2Model ----
(***************************************************************************)
(* py4vasp raw data layer: the File adapter of src/py4vasp/raw/file.py.    *)
(* The HDF5 store is a set of paths (groups and datasets), the adapter is  *)
(* the pair (store, closed flag), every _read_* method is an operator that *)
(* returns the record it assembles together with the store lookups it made *)
(* and the exception it raised, in Python's evaluation order.              *)
(* On top of the raw layer: Exciton.to_view of                             *)
(* src/py4vasp/calculation/_exciton.py with its selection expressions, and *)
(* the stepwise magnetism functions of src/py4vasp/data/magnetism.py.      *)
(***************************************************************************)
EXTENDS Integers, Sequences, FiniteSets, TLC

VARIABLES
    files,    \* the regular files on disk that h5py can open for reading
    pc,       \* "unopened" | "constructed" | "failed": File.__init__
    ctor,     \* the last call of File.__init__: argument, resolved name, outcome
    h5f,      \* self._h5f: the paths (groups and datasets) present in the store
    vers,     \* the values stored at version/major, version/minor, version/patch
    h5open,   \* whether the h5py file object is still open (h5py's own state)
    closed,   \* self.closed
    scope,    \* the with-statement: "none" | "inside" | "exited"
    raised,   \* the exception that left the with-body and what became of it
    call,     \* the last accessor call: name, outcome, keyed result, lookups
    deref,    \* the last materialization of an array handle of call's record
    exciton,  \* the Exciton object: its raw exciton_charge and its _selection
    viewer,   \* the last call of Exciton.to_view: arguments and outcome
    moments,  \* raw_magnetism.moments: the array of the magnetism functions
    read      \* the last call of a magnetism function: arguments and outcome

fileVars == <<files, pc, ctor, h5f, vers, h5open, closed, scope, raised, call, deref>>
dataVars == <<exciton, viewer, moments, read>>
vars == <<fileVars, dataVars>>

-----------------------------------------------------------------------------
(* The store layout: every path file.py tests or reads.                    *)

NoSuffix == ""
KpointsOpt == "_kpoints_opt"
Suffixes == {NoSuffix, KpointsOpt}

VersionPaths == <<"version/major", "version/minor", "version/patch">>

SystemPath == "input/incar/SYSTEM"

DosGroup(suffix) == "results/electron_dos" \o suffix
DosPaths(suffix) ==
    {DosGroup(suffix) \o "/energies", DosGroup(suffix) \o "/efermi",
     DosGroup(suffix) \o "/dos", DosGroup(suffix) \o "/dospar"}

EigGroup(suffix) == "results/electron_eigenvalues" \o suffix
EigPaths(suffix) ==
    {EigGroup(suffix), EigGroup(suffix) \o "/eigenvalues",
     EigGroup(suffix) \o "/fermiweights", EigGroup(suffix) \o "/kpoint_coords",
     EigGroup(suffix) \o "/kpoints_symmetry_weight"}

ProjGroup(suffix) == "results/projectors" \o suffix
ProjPaths(suffix) ==
    {ProjGroup(suffix), ProjGroup(suffix) \o "/lchar", ProjGroup(suffix) \o "/par"}

KpointInput(suffix) ==
    IF suffix = KpointsOpt THEN "input/kpoints_opt" ELSE "input/kpoints"
KpointInputPaths(suffix) ==
    {KpointInput(suffix), KpointInput(suffix) \o "/mode",
     KpointInput(suffix) \o "/number_kpoints",
     KpointInput(suffix) \o "/labels_kpoints",
     KpointInput(suffix) \o "/positions_labels_kpoints"}

(* All groups and datasets that belong to one format variant. *)
VariantPaths(suffix) ==
    DosPaths(suffix) \cup EigPaths(suffix) \cup ProjPaths(suffix)
        \cup KpointInputPaths(suffix)

TopologyPaths ==
    {"results/positions/ion_types", "results/positions/number_ion_types"}
CellPaths ==
    {"results/positions/scale", "/intermediate/ion_dynamics/lattice_vectors"}
PositionsPath == "intermediate/ion_dynamics/position_ions"
MomentsPath == "intermediate/ion_dynamics/magnetism/moments"
EnergyPaths ==
    {"intermediate/ion_dynamics/energies_tags", "intermediate/ion_dynamics/energies"}
ForcesPath == "intermediate/ion_dynamics/forces"
StressPath == "intermediate/ion_dynamics/stress"
ChargePath == "charge/charge"

LinearResponse == "results/linear_response"
LR(name) == LinearResponse \o "/" \o name
DielectricFunctionOptional ==
    {LR("density_density_dielectric_function"),
     LR("current_current_dielectric_function"), LR("ion_dielectric_function")}
DielectricTensorPaths ==
    {LR("electron_dielectric_tensor"), LR("ion_dielectric_tensor"),
     LR("method_dielectric_tensor")}
ElasticPaths ==
    {LR("clamped_ion_elastic_modulus"), LR("relaxed_ion_elastic_modulus")}
PiezoPaths ==
    {LR("electron_piezoelectric_tensor"), LR("ion_piezoelectric_tensor")}
DipolePaths == {LR("electron_dipole_moment"), LR("ion_dipole_moment")}
LinearResponsePaths ==
    {LinearResponse, LR("energies_dielectric_function"), LR("force_constants"),
     LR("independent_particle_dielectric_tensor"), LR("born_charges"),
     LR("internal_strain")}
        \cup DielectricFunctionOptional \cup DielectricTensorPaths
        \cup ElasticPaths \cup PiezoPaths \cup DipolePaths

(* What a valid container always holds: version, topology, cell. *)
MandatoryPaths ==
    {VersionPaths[i] : i \in 1..3} \cup TopologyPaths \cup CellPaths

(* The complete output of a calculation that wrote every quantity. *)
FullStore ==
    MandatoryPaths \cup {SystemPath, PositionsPath, MomentsPath, ForcesPath,
                         StressPath, ChargePath}
        \cup EnergyPaths \cup VariantPaths(NoSuffix) \cup VariantPaths(KpointsOpt)
        \cup LinearResponsePaths

(* The optional parts a calculation may not have written: each is one     *)
(* group with everything below it, or a dataset (or datasets written      *)
(* together).  Removing a group removes its children, so every store of   *)
(* the model is closed under "a dataset's group exists".                  *)
VariantUnits ==
    {VariantPaths(s) : s \in Suffixes}
        \cup {DosPaths(s) : s \in Suffixes} \cup {EigPaths(s) : s \in Suffixes}
        \cup {ProjPaths(s) : s \in Suffixes}
        \cup {KpointInputPaths(s) : s \in Suffixes}
        \cup {{DosGroup(s) \o "/dospar"} : s \in Suffixes}
        \cup {{ProjGroup(s) \o "/par"} : s \in Suffixes}
        \cup {{KpointInput(s) \o "/labels_kpoints",
               KpointInput(s) \o "/positions_labels_kpoints"} : s \in Suffixes}
IonicUnits ==
    {{SystemPath}, {PositionsPath}, {MomentsPath}, EnergyPaths, {ForcesPath},
     {StressPath}, {ChargePath}}
LinearResponseUnits ==
    {LinearResponsePaths, {LR("energies_dielectric_function")},
     DielectricFunctionOptional, {LR("force_constants")}, DielectricTensorPaths,
     {LR("independent_particle_dielectric_tensor")}, {LR("born_charges")},
     {LR("internal_strain")}, ElasticPaths, PiezoPaths, DipolePaths}
Units == VariantUnits \cup IonicUnits \cup LinearResponseUnits

(* The coarse parts: a whole variant, the magnetism data, the linear      *)
(* response group, the charge density.                                    *)
CoarseUnits ==
    {VariantPaths(s) : s \in Suffixes}
        \cup {{MomentsPath}, LinearResponsePaths, {ChargePath}, EnergyPaths}

(* Bound: how many optional parts a store of the model may lack. *)
MaxMissing == 1

(* The sets of at most n of the units. *)
RECURSIVE UpTo(_, _)
UpTo(units, n) ==
    IF n = 0 THEN {{}}
    ELSE LET fewer == UpTo(units, n - 1)
         IN fewer \cup {m \cup {u} : m \in fewer, u \in units}

StoresLacking(units) == {FullStore \ UNION m : m \in UpTo(units, MaxMissing)}

Stores == StoresLacking(Units)
CoarseStores == StoresLacking(CoarseUnits)

(* Version triples on both sides of the 6.3 gate in every component. *)
Versions == {<<5, 4, 1>>, <<6, 2, 9>>, <<6, 3, 0>>, <<7, 0, 0>>}

-----------------------------------------------------------------------------
(* Values.  A record field is an array handle (an h5py dataset: only the  *)
(* location, no data is read), a scalar read eagerly with [()], the       *)
(* absent value None, or a nested record.  The store is read-only, so the *)
(* datum at a location is named by the location.                          *)

None == [tag |-> "None"]
Handle(path) == [tag |-> "dataset", path |-> path]
Scalar(path) == [tag |-> "scalar", of |-> path]
Length(path) == [tag |-> "len", of |-> path]

Errors == {"FileAccessError", "KeyError", "OutdatedVaspVersion"}

(* What a _read_* method hands back: the record (status "present"), None  *)
(* (status "absent") or the exception it raised, with the store lookups   *)
(* (membership tests and item reads) it made, in order.                   *)
Present(kind, fields, looked) ==
    [status |-> "present", kind |-> kind, fields |-> fields, looked |-> looked]
Absent(looked) ==
    [status |-> "absent", kind |-> "None", fields |-> <<>>, looked |-> looked]
Raise(error, looked) ==
    [status |-> error, kind |-> "None", fields |-> <<>>, looked |-> looked]

(* A reader's result as the value of a field or of a key: the lookups are *)
(* not part of the value.                                                 *)
AsValue(r) ==
    IF r.status = "present"
    THEN [tag |-> "record", kind |-> r.kind, fields |-> r.fields]
    ELSE None

(* The keyword arguments of a record constructor, in source order. *)
Item(name, path) == [name |-> name, how |-> "item", path |-> path, sub |-> None]
Value(name, path) == [name |-> name, how |-> "value", path |-> path, sub |-> None]
LenOf(name, path) == [name |-> name, how |-> "len", path |-> path, sub |-> None]
Safe(name, path) == [name |-> name, how |-> "safe", path |-> path, sub |-> None]
Given(name, value, looked) ==
    [name |-> name, how |-> "given", path |-> "",
     sub |-> [status |-> "given", value |-> value, looked |-> looked]]
Nested(name, r) == [name |-> name, how |-> "nested", path |-> "", sub |-> r]

(* Python evaluates the arguments left to right; self._h5f[path] raises   *)
(* KeyError for a path the store does not hold, and the first exception   *)
(* ends the evaluation.                                                   *)
RECURSIVE Assemble(_, _, _, _, _)
Assemble(store, kind, args, fields, looked) ==
    IF args = <<>> THEN Present(kind, fields, looked)
    ELSE LET a == Head(args)
             rest == Tail(args)
         IN CASE a.how = "nested" ->
                   IF a.sub.status \in Errors
                   THEN Raise(a.sub.status, looked \o a.sub.looked)
                   ELSE Assemble(store, kind, rest,
                                 fields @@ (a.name :> AsValue(a.sub)),
                                 looked \o a.sub.looked)
              [] a.how = "given" ->
                   Assemble(store, kind, rest, fields @@ (a.name :> a.sub.value),
                            looked \o a.sub.looked)
              [] a.how = "safe" ->
                   IF a.path \in store
                   THEN Assemble(store, kind, rest,
                                 fields @@ (a.name :> Handle(a.path)),
                                 looked \o <<a.path, a.path>>)
                   ELSE Assemble(store, kind, rest, fields @@ (a.name :> None),
                                 looked \o <<a.path>>)
              [] OTHER ->
                   IF a.path \notin store
                   THEN Raise("KeyError", looked \o <<a.path>>)
                   ELSE Assemble(store, kind, rest,
                                 fields @@ (a.name :>
                                     CASE a.how = "item" -> Handle(a.path)
                                       [] a.how = "value" -> Scalar(a.path)
                                       [] OTHER -> Length(a.path)),
                                 looked \o <<a.path>>)

(* File._safe_get_key as one constructor argument. *)
_safe_get_key(name, key) == Safe(name, key)

-----------------------------------------------------------------------------
(* The adapter: self = [h5f, closed, vers].                                *)

Self(store, isClosed, version) ==
    [h5f |-> store, closed |-> isClosed, vers |-> version]

(* Mutant: the guard never fires. *)
_raise_error_never(self) == FALSE

(* File._raise_error_if_closed: TRUE when it raises. *)
_raise_error_if_closed(self) == self.closed

_read_system(self) ==
    IF _raise_error_if_closed(self) THEN Raise("FileAccessError", <<>>)
    ELSE Assemble(self.h5f, "RawSystem", <<Value("system", SystemPath)>>,
                  <<>>, <<>>)

_read_topology(self) ==
    IF _raise_error_if_closed(self) THEN Raise("FileAccessError", <<>>)
    ELSE Assemble(self.h5f, "RawTopology",
                  <<Item("ion_types", "results/positions/ion_types"),
                    Item("number_ion_types", "results/positions/number_ion_types")>>,
                  <<>>, <<>>)

_read_cell(self) ==
    IF _raise_error_if_closed(self) THEN Raise("FileAccessError", <<>>)
    ELSE Assemble(self.h5f, "RawCell",
                  <<Value("scale", "results/positions/scale"),
                    Item("lattice_vectors",
                         "/intermediate/ion_dynamics/lattice_vectors")>>,
                  <<>>, <<>>)

(* Mutant: the structure builds its cell itself and leaves the scale out. *)
_read_structure_own_cell(self) ==
    IF _raise_error_if_closed(self) THEN Raise("FileAccessError", <<>>)
    ELSE Assemble(self.h5f, "RawStructure",
                  <<Nested("topology", _read_topology(self)),
                    Nested("cell",
                           Assemble(self.h5f, "RawCell",
                                    <<Item("lattice_vectors",
                                           "/intermediate/ion_dynamics/lattice_vectors")>>,
                                    <<>>, <<>>)),
                    Item("positions", PositionsPath)>>,
                  <<>>, <<>>)

_read_structure(self) ==
    IF _raise_error_if_closed(self) THEN Raise("FileAccessError", <<>>)
    ELSE Assemble(self.h5f, "RawStructure",
                  <<Nested("topology", _read_topology(self)),
                    Nested("cell", _read_cell(self)),
                    Item("positions", PositionsPath)>>,
                  <<>>, <<>>)

_read_projector(self, suffix) ==
    IF _raise_error_if_closed(self) THEN Raise("FileAccessError", <<>>)
    ELSE IF ProjGroup(suffix) \notin self.h5f THEN Absent(<<ProjGroup(suffix)>>)
    ELSE Assemble(self.h5f, "RawProjector",
                  <<Nested("topology", _read_topology(self)),
                    Item("orbital_types", ProjGroup(suffix) \o "/lchar"),
                    LenOf("number_spins", EigGroup(suffix) \o "/eigenvalues")>>,
                  <<>>, <<ProjGroup(suffix)>>)

_read_kpoint(self, suffix) ==
    LET input == KpointInput(suffix)
        result == EigGroup(suffix)
    IN IF _raise_error_if_closed(self) THEN Raise("FileAccessError", <<>>)
       ELSE IF input \notin self.h5f THEN Absent(<<input>>)
       ELSE IF result \notin self.h5f THEN Absent(<<input, result>>)
       ELSE Assemble(self.h5f, "RawKpoint",
                     <<Value("mode", input \o "/mode"),
                       Value("number", input \o "/number_kpoints"),
                       Item("coordinates", result \o "/kpoint_coords"),
                       Item("weights", result \o "/kpoints_symmetry_weight"),
                       _safe_get_key("labels", input \o "/labels_kpoints"),
                       _safe_get_key("label_indices",
                                     input \o "/positions_labels_kpoints"),
                       Nested("cell", _read_cell(self))>>,
                     <<>>, <<input, result>>)

_read_dos(self, suffix) ==
    LET energies == DosGroup(suffix) \o "/energies"
    IN IF _raise_error_if_closed(self) THEN Raise("FileAccessError", <<>>)
       ELSE IF energies \notin self.h5f THEN Absent(<<energies>>)
       ELSE Assemble(self.h5f, "RawDos",
                     <<Value("fermi_energy", DosGroup(suffix) \o "/efermi"),
                       Item("energies", energies),
                       Item("dos", DosGroup(suffix) \o "/dos"),
                       Nested("projectors", _read_projector(self, suffix)),
                       _safe_get_key("projections", DosGroup(suffix) \o "/dospar")>>,
                     <<>>, <<energies>>)

(* Mutant: the Fermi energy is read from the default dos group for both   *)
(* variants.                                                              *)
_read_band_shared_efermi(self, suffix) ==
    IF _raise_error_if_closed(self) THEN Raise("FileAccessError", <<>>)
    ELSE IF EigGroup(suffix) \notin self.h5f THEN Absent(<<EigGroup(suffix)>>)
    ELSE Assemble(self.h5f, "RawBand",
                  <<Value("fermi_energy", DosGroup(NoSuffix) \o "/efermi"),
                    Nested("kpoints", _read_kpoint(self, suffix)),
                    Item("eigenvalues", EigGroup(suffix) \o "/eigenvalues"),
                    Item("occupations", EigGroup(suffix) \o "/fermiweights"),
                    Nested("projectors", _read_projector(self, suffix)),
                    _safe_get_key("projections", ProjGroup(suffix) \o "/par")>>,
                  <<>>, <<EigGroup(suffix)>>)

_read_band(self, suffix) ==
    IF _raise_error_if_closed(self) THEN Raise("FileAccessError", <<>>)
    ELSE IF EigGroup(suffix) \notin self.h5f THEN Absent(<<EigGroup(suffix)>>)
    ELSE Assemble(self.h5f, "RawBand",
                  <<Value("fermi_energy", DosGroup(suffix) \o "/efermi"),
                    Nested("kpoints", _read_kpoint(self, suffix)),
                    Item("eigenvalues", EigGroup(suffix) \o "/eigenvalues"),
                    Item("occupations", EigGroup(suffix) \o "/fermiweights"),
                    Nested("projectors", _read_projector(self, suffix)),
                    _safe_get_key("projections", ProjGroup(suffix) \o "/par")>>,
                  <<>>, <<EigGroup(suffix)>>)

(* Mutant: no test for the moments. *)
_read_magnetism_unchecked(self) ==
    IF _raise_error_if_closed(self) THEN Raise("FileAccessError", <<>>)
    ELSE Assemble(self.h5f, "RawMagnetism",
                  <<Nested("structure", _read_structure(self)),
                    Item("moments", MomentsPath)>>,
                  <<>>, <<>>)

_read_magnetism(self) ==
    IF _raise_error_if_closed(self) THEN Raise("FileAccessError", <<>>)
    ELSE IF MomentsPath \notin self.h5f THEN Absent(<<MomentsPath>>)
    ELSE Assemble(self.h5f, "RawMagnetism",
                  <<Nested("structure", _read_structure(self)),
                    Item("moments", MomentsPath)>>,
                  <<>>, <<MomentsPath>>)

_read_energy(self) ==
    IF _raise_error_if_closed(self) THEN Raise("FileAccessError", <<>>)
    ELSE Assemble(self.h5f, "RawEnergy",
                  <<Item("labels", "intermediate/ion_dynamics/energies_tags"),
                    Item("values", "intermediate/ion_dynamics/energies")>>,
                  <<>>, <<>>)

_read_density(self) ==
    IF _raise_error_if_closed(self) THEN Raise("FileAccessError", <<>>)
    ELSE Assemble(self.h5f, "RawDensity",
                  <<Nested("structure", _read_structure(self)),
                    Item("charge", ChargePath)>>,
                  <<>>, <<>>)

(* Mutant: no test for the linear response group. *)
_read_dielectric_function_unchecked(self) ==
    IF _raise_error_if_closed(self) THEN Raise("FileAccessError", <<>>)
    ELSE Assemble(self.h5f, "RawDielectricFunction",
                  <<Item("energies", LR("energies_dielectric_function")),
                    _safe_get_key("density_density",
                                  LR("density_density_dielectric_function")),
                    _safe_get_key("current_current",
                                  LR("current_current_dielectric_function")),
                    _safe_get_key("ion", LR("ion_dielectric_function"))>>,
                  <<>>, <<>>)

_read_dielectric_function(self) ==
    IF _raise_error_if_closed(self) THEN Raise("FileAccessError", <<>>)
    ELSE IF LinearResponse \notin self.h5f THEN Absent(<<LinearResponse>>)
    ELSE Assemble(self.h5f, "RawDielectricFunction",
                  <<Item("energies", LR("energies_dielectric_function")),
                    _safe_get_key("density_density",
                                  LR("density_density_dielectric_function")),
                    _safe_get_key("current_current",
                                  LR("current_current_dielectric_function")),
                    _safe_get_key("ion", LR("ion_dielectric_function"))>>,
                  <<>>, <<LinearResponse>>)

_read_force(self) ==
    IF _raise_error_if_closed(self) THEN Raise("FileAccessError", <<>>)
    ELSE Assemble(self.h5f, "RawForce",
                  <<Nested("structure", _read_structure(self)),
                    Item("forces", ForcesPath)>>,
                  <<>>, <<>>)

_read_stress(self) ==
    IF _raise_error_if_closed(self) THEN Raise("FileAccessError", <<>>)
    ELSE Assemble(self.h5f, "RawStress",
                  <<Nested("structure", _read_structure(self)),
                    Item("stress", StressPath)>>,
                  <<>>, <<>>)

_read_force_constant(self) ==
    IF _raise_error_if_closed(self) THEN Raise("FileAccessError", <<>>)
    ELSE Assemble(self.h5f, "RawForceConstant",
                  <<Nested("structure", _read_structure(self)),
                    Item("force_constants", LR("force_constants"))>>,
                  <<>>, <<>>)

_read_dielectric_tensor(self) ==
    LET key == LR("independent_particle_dielectric_tensor")
        found == key \in self.h5f
    IN IF _raise_error_if_closed(self) THEN Raise("FileAccessError", <<>>)
       ELSE Assemble(self.h5f, "RawDielectricTensor",
                     <<Item("electron", LR("electron_dielectric_tensor")),
                       Item("ion", LR("ion_dielectric_tensor")),
                       Given("independent_particle",
                             IF found THEN Handle(key) ELSE None, <<>>),
                       Value("method", LR("method_dielectric_tensor"))>>,
                     <<>>, IF found THEN <<key, key>> ELSE <<key>>)

_read_born_effective_charge(self) ==
    IF _raise_error_if_closed(self) THEN Raise("FileAccessError", <<>>)
    ELSE Assemble(self.h5f, "RawBornEffectiveCharge",
                  <<Nested("structure", _read_structure(self)),
                    Item("charge_tensors", LR("born_charges"))>>,
                  <<>>, <<>>)

_read_internal_strain(self) ==
    IF _raise_error_if_closed(self) THEN Raise("FileAccessError", <<>>)
    ELSE Assemble(self.h5f, "RawInternalStrain",
                  <<Nested("structure", _read_structure(self)),
                    Item("internal_strain", LR("internal_strain"))>>,
                  <<>>, <<>>)

_read_elastic_modulus(self) ==
    IF _raise_error_if_closed(self) THEN Raise("FileAccessError", <<>>)
    ELSE Assemble(self.h5f, "RawElasticModulus",
                  <<Item("clamped_ion", LR("clamped_ion_elastic_modulus")),
                    Item("relaxed_ion", LR("relaxed_ion_elastic_modulus"))>>,
                  <<>>, <<>>)

_read_piezoelectric_tensor(self) ==
    IF _raise_error_if_closed(self) THEN Raise("FileAccessError", <<>>)
    ELSE Assemble(self.h5f, "RawPiezoelectricTensor",
                  <<Item("electron", LR("electron_piezoelectric_tensor")),
                    Item("ion", LR("ion_piezoelectric_tensor"))>>,
                  <<>>, <<>>)

_read_polarization(self) ==
    IF _raise_error_if_closed(self) THEN Raise("FileAccessError", <<>>)
    ELSE Assemble(self.h5f, "RawPolarization",
                  <<Item("electron", LR("electron_dipole_moment")),
                    Item("ion", LR("ion_dipole_moment"))>>,
                  <<>>, <<>>)

-----------------------------------------------------------------------------
(* The public accessors.  An accessor call ends in a returned value or in *)
(* an exception; either way it has made the store lookups `looked`.       *)

Returned(value, version, looked) ==
    [outcome |-> "ok", value |-> value, version |-> version, looked |-> looked]
Thrown(error, looked) ==
    [outcome |-> error, value |-> <<>>, version |-> <<>>, looked |-> looked]

(* File.version: the closed check, then three scalar reads. *)
_version_record(self) ==
    IF _raise_error_if_closed(self) THEN Raise("FileAccessError", <<>>)
    ELSE Assemble(self.h5f, "RawVersion",
                  <<Value("major", VersionPaths[1]),
                    Value("minor", VersionPaths[2]),
                    Value("patch", VersionPaths[3])>>,
                  <<>>, <<>>)

(* Mutant: the version is kept from the time the file was opened. *)
version_kept_from_open(self) ==
    IF _raise_error_if_closed(self) THEN Thrown("FileAccessError", <<>>)
    ELSE Returned(<<>>, self.vers, <<>>)

version(self) ==
    LET v == _version_record(self)
    IN IF v.status \in Errors THEN Thrown(v.status, v.looked)
       ELSE Returned(<<>>, self.vers, v.looked)

(* DataDict(dict, version) of rawdata: a read-only mapping with the version. *)
DataDict(dict, v, looked) == Returned(dict, v, looked)

(* DataDict.__getitem__: the wrapped dict's lookup. *)
Lookup(result, key) ==
    IF key \in DOMAIN result.value THEN result.value[key] ELSE [tag |-> "KeyError"]

(* Mutant: variants without data are left out of the dictionary. *)
_make_data_dict_skip_none(self, default, other, looked) ==
    LET v == version(self)
        all == ("default" :> AsValue(default))
                   @@ [k \in DOMAIN other |-> AsValue(other[k])]
        kept == {k \in DOMAIN all : all[k] # None}
    IN IF v.outcome # "ok" THEN Thrown(v.outcome, looked \o v.looked)
       ELSE DataDict([k \in kept |-> all[k]], v.version, looked \o v.looked)

(* File._make_data_dict(default, **other): {"default": default, **other}  *)
(* and self.version, which checks the closed flag and reads the store.    *)
_make_data_dict(self, default, other, looked) ==
    LET v == version(self)
    IN IF v.outcome # "ok" THEN Thrown(v.outcome, looked \o v.looked)
       ELSE DataDict(("default" :> AsValue(default))
                         @@ [k \in DOMAIN other |-> AsValue(other[k])],
                     v.version, looked \o v.looked)

(* return self._make_data_dict(self._read_x()): the argument is evaluated *)
(* first, and its exception leaves the accessor.                          *)
OneVariant(self, default) ==
    IF default.status \in Errors THEN Thrown(default.status, default.looked)
    ELSE _make_data_dict(self, default, <<>>, default.looked)

(* return self._make_data_dict(self._read_x(), kpoints_opt=self._read_x(  *)
(* "_kpoints_opt")): both arguments are evaluated, in order, before the   *)
(* dictionary is made.                                                    *)
TwoVariants(self, default, opt) ==
    IF default.status \in Errors THEN Thrown(default.status, default.looked)
    ELSE IF opt.status \in Errors
    THEN Thrown(opt.status, default.looked \o opt.looked)
    ELSE _make_data_dict(self, default, ("kpoints_opt" :> opt),
                         default.looked \o opt.looked)

system(self) == OneVariant(self, _read_system(self))
dos(self) ==
    TwoVariants(self, _read_dos(self, NoSuffix), _read_dos(self, KpointsOpt))
band(self) ==
    TwoVariants(self, _read_band(self, NoSuffix), _read_band(self, KpointsOpt))
topology(self) == OneVariant(self, _read_topology(self))
projector(self) ==
    TwoVariants(self, _read_projector(self, NoSuffix),
                _read_projector(self, KpointsOpt))
kpoint(self) ==
    TwoVariants(self, _read_kpoint(self, NoSuffix), _read_kpoint(self, KpointsOpt))
cell(self) == OneVariant(self, _read_cell(self))
magnetism(self) == OneVariant(self, _read_magnetism(self))
structure(self) == OneVariant(self, _read_structure(self))
energy(self) == OneVariant(self, _read_energy(self))
density(self) == OneVariant(self, _read_density(self))
force(self) == OneVariant(self, _read_force(self))
stress(self) == OneVariant(self, _read_stress(self))

(* RawVersion(6, 3): the minimum of every gated accessor. *)
RequiredMajor == 6
RequiredMinor == 3
RequiredPatch == 0
RequiredVersion == <<RequiredMajor, RequiredMinor, RequiredPatch>>

(* RawVersion ordering: lexicographic on (major, minor, patch). *)
VersionBelow(v, minimum) ==
    \/ v[1] < minimum[1]
    \/ v[1] = minimum[1] /\ v[2] < minimum[2]
    \/ v[1] = minimum[1] /\ v[2] = minimum[2] /\ v[3] < minimum[3]

(* _version.require(minimum): the wrapper reads the file's version and    *)
(* raises OutdatedVaspVersion before the wrapped accessor runs.           *)
require(self, minimum, inner) ==
    LET v == version(self)
    IN IF v.outcome # "ok" THEN v
       ELSE IF VersionBelow(v.version, minimum)
       THEN Thrown("OutdatedVaspVersion", v.looked)
       ELSE [inner EXCEPT !.looked = v.looked \o @]

dielectric_function(self) ==
    require(self, RequiredVersion,
            OneVariant(self, _read_dielectric_function(self)))
(* Mutant: the accessor without its version requirement. *)
force_constant_ungated(self) == OneVariant(self, _read_force_constant(self))

force_constant(self) ==
    require(self, RequiredVersion, OneVariant(self, _read_force_constant(self)))
dielectric_tensor(self) ==
    require(self, RequiredVersion, OneVariant(self, _read_dielectric_tensor(self)))
born_effective_charge(self) ==
    require(self, RequiredVersion,
            OneVariant(self, _read_born_effective_charge(self)))
internal_strain(self) ==
    require(self, RequiredVersion, OneVariant(self, _read_internal_strain(self)))
elastic_modulus(self) ==
    require(self, RequiredVersion, OneVariant(self, _read_elastic_modulus(self)))
piezoelectric_tensor(self) ==
    require(self, RequiredVersion,
            OneVariant(self, _read_piezoelectric_tensor(self)))
polarization(self) ==
    require(self, RequiredVersion, OneVariant(self, _read_polarization(self)))

VariantAccessors == {"dos", "band", "projector", "kpoint"}
DefaultOnlyAccessors ==
    {"system", "topology", "cell", "magnetism", "structure", "energy", "density",
     "force", "stress"}
GatedAccessors ==
    {"dielectric_function", "force_constant", "dielectric_tensor",
     "born_effective_charge", "internal_strain", "elastic_modulus",
     "piezoelectric_tensor", "polarization"}
KeyedAccessors == VariantAccessors \cup DefaultOnlyAccessors \cup GatedAccessors
Accessors == {"version"} \cup KeyedAccessors

(* Attribute access on a File: file.<name>. *)
Accessor(self, name) ==
    CASE name = "version" -> version(self)
      [] name = "system" -> system(self)
      [] name = "dos" -> dos(self)
      [] name = "band" -> band(self)
      [] name = "topology" -> topology(self)
      [] name = "projector" -> projector(self)
      [] name = "kpoint" -> kpoint(self)
      [] name = "cell" -> cell(self)
      [] name = "magnetism" -> magnetism(self)
      [] name = "structure" -> structure(self)
      [] name = "energy" -> energy(self)
      [] name = "density" -> density(self)
      [] name = "force" -> force(self)
      [] name = "stress" -> stress(self)
      [] name = "dielectric_function" -> dielectric_function(self)
      [] name = "force_constant" -> force_constant(self)
      [] name = "dielectric_tensor" -> dielectric_tensor(self)
      [] name = "born_effective_charge" -> born_effective_charge(self)
      [] name = "internal_strain" -> internal_strain(self)
      [] name = "elastic_modulus" -> elastic_modulus(self)
      [] name = "piezoelectric_tensor" -> piezoelectric_tensor(self)
      [] OTHER -> polarization(self)

-----------------------------------------------------------------------------
(* Construction: File.__init__ and File._actual_filename.                 *)

default_filename == "vaspout.h5"
NoFilename == "None"

(* The file system the constructor sees: two directories, and the files   *)
(* that may or may not exist in them and in the working directory.        *)
Directories == {"calc", "scratch"}
Join(dir, name) == dir \o "/" \o name
CandidateFiles ==
    {default_filename, "other.h5", Join("calc", default_filename),
     Join("calc", "other.h5"), Join("scratch", default_filename)}
Filenames == {NoFilename} \cup Directories \cup CandidateFiles

(* Mutant: a directory falls back to the default file of the working     *)
(* directory.                                                             *)
_actual_filename_fallback(filename) ==
    IF filename = NoFilename \/ filename \in Directories THEN default_filename
    ELSE filename

_actual_filename(filename) ==
    IF filename = NoFilename THEN default_filename
    ELSE IF filename \in Directories THEN Join(filename, default_filename)
    ELSE filename

(* h5py.File(filename, "r") raises OSError unless the file can be opened. *)
CanOpen(filename) == filename \in files

(* File.__init__ resolves the name and opens the file; it reads nothing   *)
(* from the store (looked stays empty).                                   *)
NoCtor ==
    [filename |-> NoFilename, actual |-> "", outcome |-> "none", looked |-> <<>>]
Construct(filename) ==
    LET actual == _actual_filename(filename)
    IN /\ pc = "unopened"
       /\ closed' = FALSE
       /\ IF CanOpen(actual)
          THEN /\ pc' = "constructed"
               /\ h5open' = TRUE
               /\ ctor' = [filename |-> filename, actual |-> actual,
                           outcome |-> "ok", looked |-> <<>>]
          ELSE /\ pc' = "failed"
               /\ h5open' = FALSE
               /\ ctor' = [filename |-> filename, actual |-> actual,
                           outcome |-> "FileAccessError", looked |-> <<>>]
       /\ UNCHANGED <<files, h5f, vers, scope, raised, call, deref, dataVars>>

-----------------------------------------------------------------------------
(* The life of a constructed adapter.                                     *)

NoCall == [name |-> "none", closed |-> FALSE] @@ Thrown("none", <<>>)
NoDeref == [path |-> "", closed |-> FALSE, outcome |-> "none"]
NoRaise == [exc |-> "None", propagates |-> FALSE]

(* file.<name>, by the caller that holds the adapter; the call record    *)
(* keeps the value self.closed had when the call was made.                *)
Call(name) ==
    /\ pc = "constructed"
    /\ call' = [name |-> name, closed |-> closed]
                    @@ Accessor(Self(h5f, closed, vers), name)
    /\ deref' = NoDeref
    /\ UNCHANGED <<files, pc, ctor, h5f, vers, h5open, closed, scope, raised, dataVars>>

(* Mutant: a second close opens the flag again. *)
close_undone_by_second ==
    /\ h5open' = FALSE
    /\ closed' = ~closed

(* Mutant: the flag is set but the h5py file is left open. *)
close_flag_only ==
    /\ h5open' = h5open
    /\ closed' = TRUE

(* File.close: self._h5f.close(), then self.closed = True.  h5py closes   *)
(* an already closed file without complaint.                              *)
close ==
    /\ h5open' = FALSE
    /\ closed' = TRUE

Close ==
    /\ pc = "constructed"
    /\ close
    /\ UNCHANGED <<files, pc, ctor, h5f, vers, scope, raised, call, deref, dataVars>>

(* with file: ...   AbstractContextManager.__enter__ returns self. *)
Enter ==
    /\ pc = "constructed"
    /\ scope = "none"
    /\ scope' = "inside"
    /\ UNCHANGED <<files, pc, ctor, h5f, vers, h5open, closed, raised, call, deref, dataVars>>

(* What the with-body can end with: no exception, or any exception. *)
ExcTypes == {"None", "Exception"} \cup Errors

(* Mutant: __exit__ returns a true value. *)
ExitSwallows == TRUE

(* File.__exit__ has no return statement: it returns None, which is       *)
(* false, so the with-statement re-raises the body's exception.           *)
ExitSuppresses == FALSE

__exit__(exc_type) ==
    /\ pc = "constructed"
    /\ scope = "inside"
    /\ close
    /\ scope' = "exited"
    /\ raised' = [exc |-> exc_type,
                  propagates |-> exc_type # "None" /\ ~ExitSuppresses]
    /\ UNCHANGED <<files, pc, ctor, h5f, vers, call, deref, dataVars>>

(* The array handles (h5py datasets) a value holds, nested records        *)
(* included.                                                              *)
RECURSIVE HandlesOf(_)
HandlesOf(v) ==
    CASE v.tag = "dataset" -> {v.path}
      [] v.tag = "record" -> UNION {HandlesOf(v.fields[f]) : f \in DOMAIN v.fields}
      [] OTHER -> {}

HeldHandles ==
    IF call.outcome = "ok"
    THEN UNION {HandlesOf(call.value[k]) : k \in DOMAIN call.value}
    ELSE {}

(* dataset[...] on a handle of the record the caller holds.  The handle   *)
(* is the h5py dataset itself, not a wrapper of the adapter: h5py reads   *)
(* the data while the file is open, and raises its own exception (a       *)
(* ValueError) for an object of a closed file.                            *)
Materialize(path) == IF h5open THEN "data" ELSE "H5pyError"

Deref(path) ==
    /\ pc = "constructed"
    /\ path \in HeldHandles
    /\ deref' = [path |-> path, closed |-> closed, outcome |-> Materialize(path)]
    /\ UNCHANGED <<files, pc, ctor, h5f, vers, h5open, closed, scope, raised, call, dataVars>>

-----------------------------------------------------------------------------
(* Exciton.to_view of src/py4vasp/calculation/_exciton.py.  A string is   *)
(* the sequence of its characters, the exciton_charge array is the        *)
(* sequence of the charge grids of the excitons, a grid is a function     *)
(* from the grid points to the charge at the point.                       *)

Str(chars) == [tag |-> "str", chars |-> chars]
Truthy(v) == v # None /\ v # Str(<<>>)

Digits == <<"0", "1", "2", "3", "4", "5", "6", "7", "8", "9">>
RECURSIVE str(_)
str(k) ==
    IF k < Len(Digits)
    THEN <<Digits[k + 1]>>
    ELSE str(k \div Len(Digits)) \o <<Digits[(k % Len(Digits)) + 1]>>

(* Mutant: the default selection is the second exciton. *)
_INTERNAL_second == Str(<<"2">>)

_INTERNAL == Str(<<"1">>)

MaxExcitons == 3
Points == {<<1, 1, 1>>, <<2, 1, 1>>}
Charges == {0, 1}
Grids == [Points -> Charges]
Array(data) == [tag |-> "array", data |-> data]
ExcitonCharges ==
    {None} \cup {Array(d) : d \in UNION {[1..n -> Grids] : n \in 1..MaxExcitons}}
Excitons ==
    [exciton_charge : ExcitonCharges, _selection : {None, Str(<<"b", "s", "e">>)}]

(* numpy on the grids: transposition reverses the axes, np.newaxis adds   *)
(* a leading axis of length one, the sum is taken point by point, and an  *)
(* index below zero counts from the end of the axis.                      *)
T(grid) ==
    [p \in {<<q[3], q[2], q[1]>> : q \in DOMAIN grid} |-> grid[<<p[3], p[2], p[1]>>]]
newaxis(grid) == <<grid>>
RECURSIVE Sum(_)
Sum(grids) ==
    IF Len(grids) = 1
    THEN Head(grids)
    ELSE LET rest == Sum(Tail(grids))
         IN [p \in DOMAIN rest |-> Head(grids)[p] + rest[p]]
InAxis(data, i) == -Len(data) <= i /\ i < Len(data)
Slice(data, i) == IF i < 0 THEN data[Len(data) + i + 1] ELSE data[i + 1]

(* select.Tree: the expression is cut at blanks into selections and each  *)
(* selection at "+" into its atoms, in the order of the input.            *)
RECURSIVE Split(_, _)
Split(chars, separator) ==
    IF chars = <<>>
    THEN <<<<>>>>
    ELSE LET rest == Split(Tail(chars), separator)
         IN IF Head(chars) = separator
            THEN <<<<>>>> \o rest
            ELSE <<<<Head(chars)>> \o Head(rest)>> \o Tail(rest)
NonEmpty(part) == part # <<>>
from_selection(selection) ==
    LET groups == SelectSeq(Split(selection.chars, " "), NonEmpty)
    IN [i \in 1..Len(groups) |-> Split(groups[i], "+")]
selections(tree) == tree

(* index.Selector over axis 0 of the data: the label of a selection joins *)
(* its atoms with "+"; indexing resolves every atom through the map, in   *)
(* order, and sums the slices; an atom that is not a key of the map is a  *)
(* selection error that names the atom and the range of valid indices.    *)
Selector(map_, data) == [map |-> map_, data |-> data]
RECURSIVE JoinAtoms(_, _)
JoinAtoms(atoms, separator) ==
    IF Len(atoms) = 1
    THEN Head(atoms)
    ELSE Head(atoms) \o <<separator>> \o JoinAtoms(Tail(atoms), separator)
label(selector, selection) == JoinAtoms(selection, "+")
SelectionError(atom, range) ==
    [tag |-> "SelectionError", atom |-> atom, range |-> range]
IndexError(index) == [tag |-> "IndexError", atom |-> index, range |-> <<>>]
getitem(selector, selection) ==
    LET unknown == {i \in 1..Len(selection) : selection[i] \notin DOMAIN selector.map}
        first == CHOOSE i \in unknown : \A j \in unknown : i <= j
        indices == [i \in 1..Len(selection) |-> selector.map[selection[i]]]
        outside == {i \in 1..Len(selection) : ~InAxis(selector.data, indices[i])}
    IN IF unknown # {}
       THEN SelectionError(selection[first], <<1, Len(selector.data)>>)
       ELSE IF outside # {}
       THEN IndexError(indices[CHOOSE i \in outside : \A j \in outside : i <= j])
       ELSE [tag |-> "grid",
             grid |-> Sum([i \in 1..Len(selection) |-> Slice(selector.data, indices[i])])]

(* The methods of Exciton. *)
_raise_error_if_no_data(data) == data = None

(* Mutant: the atoms are taken as indices of the array. *)
_create_map_as_index(self) ==
    LET excitons == Len(self.exciton_charge.data)
    IN [atom \in {str(choice) : choice \in 1..excitons} |->
           CHOOSE choice \in 1..excitons : str(choice) = atom]

(* Mutant: the choices start at 0. *)
_create_map_from_zero(self) ==
    LET excitons == Len(self.exciton_charge.data)
    IN [atom \in {str(choice) : choice \in 0..excitons} |->
           (CHOOSE choice \in 0..excitons : str(choice) = atom) - 1]

(* Exciton._create_map: str(choice) -> choice - 1 for choice in 1..N. *)
_create_map(self) ==
    LET excitons == Len(self.exciton_charge.data)
    IN [atom \in {str(choice) : choice \in 1..excitons} |->
           (CHOOSE choice \in 1..excitons : str(choice) = atom) - 1]

_label(self, component_label) ==
    IF Truthy(self._selection)
    THEN self._selection.chars \o <<"(">> \o component_label \o <<")">>
    ELSE component_label

Option(user_options, key, default) ==
    IF \E option \in user_options : option[1] = key
    THEN (CHOOSE option \in user_options : option[1] = key)[2]
    ELSE default
_isosurfaces(user_options) ==
    <<[isolevel |-> Option(user_options, "isolevel", "0.8"),
       color |-> Option(user_options, "color", "cyan"),
       opacity |-> Option(user_options, "opacity", "0.6")]>>

_grid_quantity(self, selector, selection, map_, user_options) ==
    LET component_label == label(selector, selection)
        selected == getitem(selector, selection)
    IN IF selected.tag = "grid"
       THEN [tag |-> "GridQuantity",
             quantity |-> newaxis(T(selected.grid)),
             label |-> _label(self, component_label),
             isosurfaces |-> _isosurfaces(user_options)]
       ELSE selected

NoShift == <<>>
View(outcome, error, supercell, grid_scalars, shift) ==
    [outcome |-> outcome, error |-> error, supercell |-> supercell,
     grid_scalars |-> grid_scalars, shift |-> shift]
Failed(outcome, error) == View(outcome, error, None, <<>>, NoShift)

to_view(self, selection, supercell, center, user_options) ==
    IF _raise_error_if_no_data(self.exciton_charge)
    THEN Failed("NoData", None)
    ELSE LET chosen == IF Truthy(selection) THEN selection ELSE _INTERNAL
             map_ == _create_map(self)
             selector == Selector(map_, self.exciton_charge.data)
             tree == from_selection(chosen)
             all == selections(tree)
             made == [i \in 1..Len(all) |->
                         _grid_quantity(self, selector, all[i], map_, user_options)]
             failures == {i \in 1..Len(all) : made[i].tag # "GridQuantity"}
             first == CHOOSE i \in failures : \A j \in failures : i <= j
         IN IF failures # {}
            THEN Failed(made[first].tag, made[first])
            ELSE View("ok", None, supercell, made,
                      IF center THEN <<"0.5", "0.5", "0.5">> ELSE NoShift)

Expressions ==
    {<<>>, <<"1">>, <<"2">>, <<"3">>, <<"4">>, <<"5">>, <<"0">>, <<"1", "0">>,
     <<"1", "+", "2">>, <<"2", "+", "1">>, <<"1", "+", "2", "+", "3">>,
     <<"1", " ", "2">>, <<"2", " ", "1", "+", "3">>, <<"1", "+", "5">>,
     <<"1", " ", "0">>, <<"2", "+", "2">>}
SelectionArguments == {None} \cup {Str(e) : e \in Expressions}
Supercells == {[tag |-> "supercell", repeat |-> <<2, 2, 2>>]}
UserOptions == {{<<"isolevel", "0.1">>}}

NoViewer ==
    [selection |-> None, center |-> FALSE, user_options |-> {}]
        @@ Failed("none", None)

ToView(selection, supercell, center, user_options) ==
    /\ exciton \in Excitons
    /\ viewer' = [selection |-> selection, center |-> center,
                  user_options |-> user_options]
                     @@ to_view(exciton, selection, supercell, center, user_options)
    /\ UNCHANGED <<fileVars, exciton, moments, read>>

NoExciton == [exciton_charge |-> None, _selection |-> None]
NoMoments == None

-----------------------------------------------------------------------------
(* The functions of src/py4vasp/data/magnetism.py over the stepwise       *)
(* reader _Magnetism.  raw_magnetism.moments is an array with the axes    *)
(* (steps, components, atoms, orbitals): the sequence of its steps, each  *)
(* step the sequence of its components, each component the sequence of    *)
(* its atoms, each atom the sequence of its orbitals.                     *)

Integer(of) == [tag |-> "int", of |-> of]
Float(text) == [tag |-> "float", text |-> text]
Range(start, stop) == [tag |-> "range", start |-> start, stop |-> stop]
range(stop) == Range(0, stop)
Elements(steps) ==
    [i \in 1..(IF steps.stop > steps.start THEN steps.stop - steps.start ELSE 0) |->
        steps.start + i - 1]
From(start) == [tag |-> "slice", start |-> start]
All == From(0)

NDArray(ndim, data) == [tag |-> "ndarray", ndim |-> ndim, data |-> data]

MaxSteps == 3
ComponentCounts == {1, 2, 4}
Patterns == {0, 1}
Block(pattern, components) ==
    [c \in 1..components |->
        [a \in 1..2 |->
            [o \in 1..2 |-> pattern * 16 + (c - 1) * 4 + (a - 1) * 2 + o]]]
MomentsArrays ==
    {NDArray(4, [s \in DOMAIN p |-> Block(p[s], c)]) :
        p \in UNION {[1..n -> Patterns] : n \in 1..MaxSteps}, c \in ComponentCounts}

(* numpy: indexing the array with the key (steps, component, :, :).  An   *)
(* integer step below zero counts from the end; a step outside the axis,  *)
(* alone or in a range, and a step that is no integer are errors of the   *)
(* array; an integer index removes its axis, a range and a slice keep it. *)
OutOfBounds(index, size) ==
    [tag |-> "IndexError",
     args |-> <<[text |-> "index out of bounds for axis 0", index |-> index,
                 size |-> size]>>]
NotAnInteger ==
    [tag |-> "IndexError",
     args |-> <<[text |-> "only integers, slices and integer arrays are valid indices",
                 index |-> 0, size |-> 0]>>]
ArrayGetitem(array, key) ==
    LET steps == key[1]
        kept == key[2].tag = "slice"
        part(block) ==
            IF kept THEN SubSeq(block, key[2].start + 1, Len(block))
            ELSE block[key[2].of + 1]
        ndim == IF kept THEN array.ndim - 1 ELSE array.ndim - 2
    IN CASE steps.tag = "int" ->
              IF InAxis(array.data, steps.of)
              THEN NDArray(ndim, part(Slice(array.data, steps.of)))
              ELSE OutOfBounds(steps.of, Len(array.data))
         [] steps.tag = "range" ->
              LET elements == Elements(steps)
                  outside == {i \in DOMAIN elements : ~InAxis(array.data, elements[i])}
              IN IF outside = {}
                 THEN NDArray(ndim + 1,
                              [i \in DOMAIN elements |->
                                  part(Slice(array.data, elements[i]))])
                 ELSE OutOfBounds(elements[CHOOSE i \in outside :
                                               \A j \in outside : i <= j],
                                  Len(array.data))
         [] OTHER -> NotAnInteger

(* np.moveaxis(array, axis, -1) for axis 0 and axis 1, and np.sum over    *)
(* the last axis.                                                         *)
RECURSIVE FirstToLast(_, _)
FirstToLast(data, ndim) ==
    IF ndim = 1
    THEN data
    ELSE [j \in 1..Len(data[1]) |->
             FirstToLast([i \in 1..Len(data) |-> data[i][j]], ndim - 1)]
moveaxis(array, axis) ==
    IF axis = 0
    THEN NDArray(array.ndim, FirstToLast(array.data, array.ndim))
    ELSE NDArray(array.ndim,
                 [i \in 1..Len(array.data) |->
                     FirstToLast(array.data[i], array.ndim - 1)])
RECURSIVE Total(_)
Total(values) == IF values = <<>> THEN 0 ELSE Head(values) + Total(Tail(values))
RECURSIVE SumLast(_, _)
SumLast(data, ndim) ==
    IF ndim = 1
    THEN Total(data)
    ELSE [i \in 1..Len(data) |-> SumLast(data[i], ndim - 1)]

(* _util.Reader: the array with its shape and its length; indexing turns  *)
(* every error of the array into a read error with error_message.         *)
(* Mutant: the message leaves out the error of the array. *)
error_message_without_original(key, err) ==
    [start |-> "Error reading the magnetic moments. Please check if the key ",
     key |-> key[1],
     end |-> " is properly formatted and within the boundaries.",
     original |-> None]

(* _Magnetism.error_message: the f-string in its parts, key[0] of Python  *)
(* is key[1] here, err.args[0] is err.args[1].                            *)
error_message(key, err) ==
    [start |-> "Error reading the magnetic moments. Please check if the key ",
     key |-> key[1],
     end |-> " is properly formatted and within the boundaries. Additionally, you may consider the original error message:\n",
     original |-> err.args[1]]

_Magnetism(array) ==
    [array |-> array,
     shape |-> <<Len(array.data), Len(array.data[1]), Len(array.data[1][1]),
                 Len(array.data[1][1][1])>>]
__len__(reader) == Len(reader.array.data)
__getitem__(reader, key) ==
    LET item == ArrayGetitem(reader.array, key)
    IN IF item.tag = "ndarray"
       THEN item
       ELSE [tag |-> "IncorrectUsage", message |-> error_message(key, item)]

(* The functions behind Magnetism.charges, moments, total_charges and     *)
(* total_moments.  An exception of the reader leaves the function.        *)
(* Mutant: the steps argument is ignored. *)
_default_steps_all(reader, steps) == range(__len__(reader))

_default_steps_if_none(reader, steps) ==
    IF steps # None THEN steps ELSE range(__len__(reader))

_sum_over_orbitals(quantity) ==
    IF quantity.tag = "ndarray"
    THEN NDArray(quantity.ndim - 1, SumLast(quantity.data, quantity.ndim))
    ELSE quantity

_charges(raw_magnetism, steps) ==
    LET reader == _Magnetism(raw_magnetism)
        chosen == _default_steps_if_none(reader, steps)
    IN __getitem__(reader, <<chosen, Integer(0), All, All>>)

_moments(raw_magnetism, steps) ==
    LET reader == _Magnetism(raw_magnetism)
        chosen == _default_steps_if_none(reader, steps)
        directions == __getitem__(reader, <<chosen, From(1), All, All>>)
        direction_axis == IF directions.ndim = 4 THEN 1 ELSE 0
    IN IF reader.shape[2] = 1
       THEN None
       ELSE IF reader.shape[2] = 2
       THEN __getitem__(reader, <<chosen, Integer(1), All, All>>)
       ELSE IF directions.tag = "ndarray"
       THEN moveaxis(directions, direction_axis)
       ELSE directions

_total_charges(raw_magnetism, steps) ==
    _sum_over_orbitals(_charges(raw_magnetism, steps))

_total_moments(raw_magnetism, steps) ==
    LET reader == _Magnetism(raw_magnetism)
        chosen == _default_steps_if_none(reader, steps)
        directions == __getitem__(reader, <<chosen, From(1), All, All>>)
        total_moments == _sum_over_orbitals(directions)
        direction_axis == IF total_moments.ndim = 3 THEN 1 ELSE 0
    IN IF reader.shape[2] = 1
       THEN None
       ELSE IF reader.shape[2] = 2
       THEN _sum_over_orbitals(_moments(raw_magnetism, steps))
       ELSE IF directions.tag = "ndarray"
       THEN moveaxis(total_moments, direction_axis)
       ELSE directions

Functions == {"charges", "moments", "total_charges", "total_moments"}
Refinement(function, raw_magnetism, steps) ==
    CASE function = "charges" -> _charges(raw_magnetism, steps)
      [] function = "moments" -> _moments(raw_magnetism, steps)
      [] function = "total_charges" -> _total_charges(raw_magnetism, steps)
      [] OTHER -> _total_moments(raw_magnetism, steps)

StepArguments ==
    {None, Float("0.5")}
        \cup {Integer(s) : s \in -(MaxSteps + 1)..MaxSteps}
        \cup {Range(a, b) : a \in 0..1, b \in 1..(MaxSteps + 1)}

NoRead == [function |-> "none", steps |-> None, result |-> None]

Read(function, steps) ==
    /\ moments \in MomentsArrays
    /\ read' = [function |-> function, steps |-> steps,
                result |-> Refinement(function, moments, steps)]
    /\ UNCHANGED <<fileVars, exciton, viewer, moments>>

-----------------------------------------------------------------------------
(* Specifications.                                                        *)

DataIdle ==
    /\ exciton = NoExciton
    /\ viewer = NoViewer
    /\ moments = NoMoments
    /\ read = NoRead

Constructed ==
    /\ pc = "constructed"
    /\ ctor = [filename |-> NoFilename, actual |-> default_filename,
               outcome |-> "ok", looked |-> <<>>]
    /\ files = {default_filename}
    /\ h5open = TRUE
    /\ closed = FALSE
    /\ scope = "none"
    /\ raised = NoRaise
    /\ call = NoCall
    /\ deref = NoDeref

(* The adapter's life on a store that lacks some coarse parts. *)
Init ==
    /\ Constructed
    /\ DataIdle
    /\ h5f \in CoarseStores
    /\ vers \in Versions

Next ==
    \/ \E name \in Accessors : Call(name)
    \/ Close
    \/ Enter
    \/ \E exc_type \in ExcTypes : __exit__(exc_type)
    \/ \E path \in HeldHandles : Deref(path)

Spec == Init /\ [][Next]_vars

(* Every accessor on every open store of the model. *)
InitData ==
    /\ Constructed
    /\ DataIdle
    /\ h5f \in Stores
    /\ vers \in Versions

NextData == \E name \in Accessors : Call(name)

SpecData == InitData /\ [][NextData]_vars

(* Construction against every file system of the model. *)
InitOpen ==
    /\ pc = "unopened"
    /\ ctor = NoCtor
    /\ files \in SUBSET CandidateFiles
    /\ h5f = FullStore
    /\ vers = RequiredVersion
    /\ h5open = FALSE
    /\ closed = FALSE
    /\ scope = "none"
    /\ raised = NoRaise
    /\ call = NoCall
    /\ deref = NoDeref
    /\ exciton = NoExciton
    /\ viewer = NoViewer
    /\ moments = NoMoments
    /\ read = NoRead

NextOpen ==
    \/ \E filename \in Filenames : Construct(filename)
    \/ \E name \in Accessors : Call(name)
    \/ Close

SpecOpen == InitOpen /\ [][NextOpen]_vars

(* Exciton.to_view on every exciton array and every expression of the     *)
(* model.                                                                 *)
InitExciton ==
    /\ Constructed
    /\ h5f = FullStore
    /\ vers = RequiredVersion
    /\ exciton \in Excitons
    /\ viewer = NoViewer
    /\ moments = NoMoments
    /\ read = NoRead

NextExciton ==
    \E selection \in SelectionArguments, supercell \in Supercells,
       center \in BOOLEAN, user_options \in UserOptions :
        ToView(selection, supercell, center, user_options)

SpecExciton == InitExciton /\ [][NextExciton]_vars

(* The magnetism functions on every moments array and every steps         *)
(* argument of the model.                                                 *)
InitMagnetism ==
    /\ Constructed
    /\ h5f = FullStore
    /\ vers = RequiredVersion
    /\ exciton = NoExciton
    /\ viewer = NoViewer
    /\ moments \in MomentsArrays
    /\ read = NoRead

NextMagnetism ==
    \E function \in Functions, steps \in StepArguments : Read(function, steps)

SpecMagnetism == InitMagnetism /\ [][NextMagnetism]_vars

-----------------------------------------------------------------------------
(* Properties of the adapter's life (Spec).                               *)

(* C1: an accessor called on a closed File raises FileAccessError,        *)
(* whatever the store holds and whatever its version, and it has looked   *)
(* nothing up in the store when it raises.                                *)
C1_ClosedAccessorRaises ==
    (call.name \in Accessors /\ call.closed) =>
        /\ call.outcome = "FileAccessError"
        /\ call.looked = <<>>
        /\ call.value = <<>>

C1_Witness ==
    /\ closed
    /\ call.closed
    /\ call.name \in GatedAccessors
    /\ call.outcome = "FileAccessError"
    /\ vers = <<5, 4, 1>>
    /\ h5f # FullStore

(* C2 as claimed: materializing, after close, an array handle of a record *)
(* assembled while the File was open raises FileAccessError.              *)
C2_DerefRaisesAccessError ==
    (deref.outcome # "none" /\ deref.closed) => deref.outcome = "FileAccessError"

(* C2 as amended: materializing such a handle after close never yields    *)
(* data; it fails with the exception of the underlying h5py dataset, not  *)
(* with FileAccessError.  While the File is open it yields the data.      *)
C2_DerefAfterCloseFails ==
    deref.outcome # "none" =>
        /\ deref.path \in HeldHandles
        /\ ~call.closed
        /\ deref.closed => deref.outcome = "H5pyError"
        /\ ~deref.closed => deref.outcome = "data"

C2_Witness ==
    /\ call.name = "structure"
    /\ ~call.closed
    /\ deref.closed
    /\ deref.path = PositionsPath
    /\ deref.outcome = "H5pyError"

(* C3: once the with-statement has been left the File is closed, after a  *)
(* normal exit and after an exception alike, and the exception that left  *)
(* the body propagates to the caller.                                     *)
C3_ExitCloses ==
    scope = "exited" =>
        /\ closed
        /\ ~h5open
        /\ raised.propagates <=> raised.exc # "None"

C3_Witness ==
    /\ scope = "exited"
    /\ closed
    /\ raised.exc = "KeyError"
    /\ raised.propagates

(* C15: closed, once true, stays true in every step; close() and the     *)
(* close at the exit of the with-statement can be taken when the File is  *)
(* closed already and then leave it closed, with the h5py file closed and *)
(* nothing raised; a step that makes an accessor call (the only steps    *)
(* that change `call`) never changes the closed flag.                     *)
C15_ClosedIsAbsorbing ==
    [][/\ closed => closed'
       /\ (closed /\ pc = "constructed") => ENABLED Close
       /\ (closed /\ Close) => (closed' /\ ~h5open' /\ raised' = raised)
       /\ (closed /\ scope = "inside") => ENABLED __exit__("None")
       /\ \A exc_type \in ExcTypes :
              (closed /\ __exit__(exc_type)) =>
                  /\ closed'
                  /\ ~h5open'
                  /\ raised'.propagates <=> exc_type # "None"
       /\ call' # call => (closed' = closed /\ h5open' = h5open)]_vars

C15_Witness ==
    /\ scope = "inside"
    /\ closed
    /\ ~h5open
    /\ call.closed
    /\ call.name = "structure"
    /\ call.outcome = "FileAccessError"

-----------------------------------------------------------------------------
(* Properties of the accessors on an open File (SpecData).                *)

(* The call an accessor makes on an open File over `store`. *)
OpenCall(store, name) ==
    [name |-> name, closed |-> FALSE] @@ Accessor(Self(store, FALSE, vers), name)

(* C4: on an open File whose version is below 6.3 (5.4.1 and 6.2.9 are,   *)
(* 6.3.0 and 7.0.0 are not) a gated accessor raises OutdatedVaspVersion,  *)
(* having read nothing but the version, and the outcome is the same for   *)
(* every other store of that version.                                     *)
C4_GateIsDeterministic ==
    (call.name \in GatedAccessors /\ ~call.closed) =>
        IF vers \in {<<5, 4, 1>>, <<6, 2, 9>>}
        THEN /\ call.outcome = "OutdatedVaspVersion"
             /\ call.value = <<>>
             /\ call.looked = VersionPaths
             /\ \A other \in Stores : OpenCall(other, call.name) = call
        ELSE call.outcome # "OutdatedVaspVersion"

C4_Witness ==
    /\ call.name = "dielectric_tensor"
    /\ vers = <<6, 2, 9>>
    /\ call.outcome = "OutdatedVaspVersion"
    /\ DielectricTensorPaths \subseteq h5f
    /\ \E other \in Stores : DielectricTensorPaths \cap other = {}

(* C5: a keyed result always has the key "default", also when that        *)
(* variant is absent; the result of an accessor without variants has no   *)
(* other key, so that looking up "kpoints_opt" is a key error.            *)
C5_DefaultKey ==
    (call.name \in KeyedAccessors /\ call.outcome = "ok") =>
        /\ "default" \in DOMAIN call.value
        /\ Lookup(call, "default").tag \in {"record", "None"}
        /\ call.name \notin VariantAccessors =>
               /\ DOMAIN call.value = {"default"}
               /\ Lookup(call, "kpoints_opt").tag = "KeyError"

C5_Witness ==
    /\ call.name = "magnetism"
    /\ call.outcome = "ok"
    /\ Lookup(call, "default") = None
    /\ Lookup(call, "kpoints_opt").tag = "KeyError"

(* C6: when the store has no magnetism moments, magnetism returns a keyed *)
(* result whose "default" is None; topology, cell and structure return    *)
(* what they return when the moments are there: present records (the      *)
(* structure as long as the store holds the ion positions).               *)
C6_MissingMagnetism ==
    (MomentsPath \notin h5f /\ ~call.closed) =>
        /\ call.name = "magnetism" =>
               /\ call.outcome = "ok"
               /\ DOMAIN call.value = {"default"}
               /\ call.value["default"] = None
        /\ call.name \in {"structure", "topology", "cell"} =>
               /\ OpenCall(h5f \cup {MomentsPath}, call.name) = call
               /\ (call.name = "structure" => PositionsPath \in h5f) =>
                      /\ call.outcome = "ok"
                      /\ Lookup(call, "default").tag = "record"

C6_Witness ==
    /\ MomentsPath \notin h5f
    /\ call.name = "magnetism"
    /\ call.outcome = "ok"
    /\ call.value["default"] = None
    /\ structure(Self(h5f, closed, vers)).outcome = "ok"

(* The reader behind a two-variant accessor, the key of a variant, the    *)
(* other variant, and the groups a reader tests before it reads.          *)
VariantReader(self, name, suffix) ==
    CASE name = "dos" -> _read_dos(self, suffix)
      [] name = "band" -> _read_band(self, suffix)
      [] name = "projector" -> _read_projector(self, suffix)
      [] OTHER -> _read_kpoint(self, suffix)
Key(suffix) == IF suffix = NoSuffix THEN "default" ELSE "kpoints_opt"
OtherVariant(suffix) == IF suffix = NoSuffix THEN KpointsOpt ELSE NoSuffix
RootMissing(store, name, suffix) ==
    CASE name = "dos" -> "results/electron_dos" \o suffix \o "/energies" \notin store
      [] name = "band" -> "results/electron_eigenvalues" \o suffix \notin store
      [] name = "projector" -> "results/projectors" \o suffix \notin store
      [] OTHER ->
          \/ "results/electron_eigenvalues" \o suffix \notin store
          \/ suffix = NoSuffix /\ "input/kpoints" \notin store
          \/ suffix = KpointsOpt /\ "input/kpoints_opt" \notin store

(* C7: when the groups of one variant of dos, band, projector or kpoint   *)
(* are missing, the other variant's record is what it is when they are    *)
(* there, the keyed result holds None under the missing variant's key,    *)
(* and the accessor raises only what the other variant's reader raises.   *)
C7_VariantsIndependent ==
    (call.name \in VariantAccessors /\ ~call.closed) =>
        \A s \in Suffixes :
            RootMissing(h5f, call.name, s) =>
                LET o == OtherVariant(s)
                    alone == VariantReader(Self(h5f, FALSE, vers), call.name, o)
                    filled == VariantReader(Self(h5f \cup VariantPaths(s), FALSE, vers),
                                            call.name, o)
                IN /\ alone = filled
                   /\ IF alone.status \in Errors
                      THEN call.outcome = alone.status
                      ELSE /\ call.outcome = "ok"
                           /\ call.value[Key(s)] = None
                           /\ call.value[Key(o)] = AsValue(alone)

C7_Witness ==
    /\ call.name = "band"
    /\ VariantPaths(KpointsOpt) \cap h5f = {}
    /\ call.outcome = "ok"
    /\ call.value["kpoints_opt"] = None
    /\ call.value["default"].tag = "record"

(* The datasets an accessor reads without testing for them, and the       *)
(* group or dataset that holds a quantity.                                *)
ReadUntested(name) ==
    CASE name = "system" -> {SystemPath}
      [] name = "structure" -> {PositionsPath}
      [] name = "energy" -> EnergyPaths
      [] name = "density" -> {PositionsPath, ChargePath}
      [] name = "force" -> {PositionsPath, ForcesPath}
      [] name = "stress" -> {PositionsPath, StressPath}
      [] name = "force_constant" -> {PositionsPath, LR("force_constants")}
      [] name = "dielectric_tensor" -> DielectricTensorPaths
      [] name = "born_effective_charge" -> {PositionsPath, LR("born_charges")}
      [] name = "internal_strain" -> {PositionsPath, LR("internal_strain")}
      [] name = "elastic_modulus" -> ElasticPaths
      [] name = "piezoelectric_tensor" -> PiezoPaths
      [] name = "polarization" -> DipolePaths
      [] OTHER -> {}
QuantityRoot(name) ==
    CASE name = "system" -> {SystemPath}
      [] name = "structure" -> {PositionsPath}
      [] name = "magnetism" -> {MomentsPath}
      [] name = "energy" -> EnergyPaths
      [] name = "density" -> {ChargePath}
      [] name = "force" -> {ForcesPath}
      [] name = "stress" -> {StressPath}
      [] name \in GatedAccessors -> LinearResponsePaths
      [] OTHER -> {}
GatePasses(name) ==
    name \in GatedAccessors => vers \in {<<6, 3, 0>>, <<7, 0, 0>>}
EfermiMissing(store) ==
    \E s \in Suffixes :
        /\ "results/electron_eigenvalues" \o s \in store
        /\ "results/electron_dos" \o s \o "/efermi" \notin store

(* C8 as claimed: an accessor of an optional quantity whose root group is *)
(* missing returns an absent record and does not raise, and so does band  *)
(* when its eigenvalue group exists and the dos group with efermi does    *)
(* not.                                                                   *)
C8_AbsentNeverRaises ==
    (~call.closed /\ GatePasses(call.name)) =>
        /\ (QuantityRoot(call.name) # {} /\ QuantityRoot(call.name) \cap h5f = {}) =>
               /\ call.outcome = "ok"
               /\ Lookup(call, "default") = None
        /\ (call.name = "band" /\ EfermiMissing(h5f)) => call.outcome = "ok"

(* C8 as amended: only dos, band, projector, kpoint, magnetism and        *)
(* dielectric_function test for their data and return None when the path  *)
(* they test is missing.  Every other accessor raises KeyError when a     *)
(* dataset it reads is missing, and so does band when its eigenvalue      *)
(* group exists and efermi does not.  A returned record is never partly   *)
(* filled: every handle in it is a dataset of the store.                  *)
C8_AbsentOnlyWhereTested ==
    (call.name \in KeyedAccessors /\ ~call.closed /\ GatePasses(call.name)) =>
        /\ (call.name = "magnetism" /\ MomentsPath \notin h5f) =>
               call.outcome = "ok" /\ Lookup(call, "default") = None
        /\ (call.name = "dielectric_function" /\ LinearResponse \notin h5f) =>
               call.outcome = "ok" /\ Lookup(call, "default") = None
        /\ call.name \in VariantAccessors =>
               /\ call.outcome \in {"ok", "KeyError"}
               /\ \A s \in Suffixes :
                      (RootMissing(h5f, call.name, s) /\ call.outcome = "ok") =>
                          call.value[Key(s)] = None
        /\ ~(ReadUntested(call.name) \subseteq h5f) => call.outcome = "KeyError"
        /\ (call.name = "band" /\ EfermiMissing(h5f)) => call.outcome = "KeyError"
        /\ call.outcome = "ok" => HeldHandles \subseteq h5f

C8_Witness ==
    /\ call.name = "energy"
    /\ ~call.closed
    /\ EnergyPaths \cap h5f = {}
    /\ call.outcome = "KeyError"

(* The records a value is made of: itself and the records nested in it. *)
RECURSIVE RecordsIn(_)
RecordsIn(v) ==
    IF v.tag = "record"
    THEN {v} \cup UNION {RecordsIn(v.fields[f]) : f \in DOMAIN v.fields}
    ELSE {}

(* C10: every RawCell, RawTopology and RawStructure nested in a record an *)
(* accessor returns is the record the cell, topology and structure        *)
(* accessors return for the same open File: the same scale and the same   *)
(* array locations.                                                       *)
C10_NestedRecordsAgree ==
    (call.outcome = "ok" /\ ~call.closed) =>
        LET self == Self(h5f, FALSE, vers)
        IN \A k \in DOMAIN call.value :
               \A r \in RecordsIn(call.value[k]) :
                   /\ r.kind = "RawCell" =>
                          /\ r = Lookup(cell(self), "default")
                          /\ r.fields["scale"] = Scalar("results/positions/scale")
                          /\ r.fields["lattice_vectors"]
                                 = Handle("/intermediate/ion_dynamics/lattice_vectors")
                   /\ r.kind = "RawTopology" => r = Lookup(topology(self), "default")
                   /\ r.kind = "RawStructure" =>
                          /\ r = Lookup(structure(self), "default")
                          /\ r.fields["cell"] = Lookup(cell(self), "default")
                          /\ r.fields["topology"] = Lookup(topology(self), "default")

C10_Witness ==
    /\ call.name = "density"
    /\ call.outcome = "ok"
    /\ call.value["default"].fields["structure"]
           = Lookup(structure(Self(h5f, closed, vers)), "default")
    /\ call.value["default"].fields["structure"].fields["cell"]
           = Lookup(cell(Self(h5f, closed, vers)), "default")

(* C16 as claimed: construction reads version/major, version/minor and    *)
(* version/patch, and no accessor call looks them up in the store again.  *)
C16_VersionReadAtOpenOnly ==
    pc = "constructed" =>
        /\ \A i \in DOMAIN VersionPaths :
               \E j \in DOMAIN ctor.looked : ctor.looked[j] = VersionPaths[i]
        /\ \A j \in DOMAIN call.looked :
               \A i \in DOMAIN VersionPaths : call.looked[j] # VersionPaths[i]

(* C16 as amended: construction reads nothing from the store.  Every      *)
(* version lookup and every keyed result of an open File reads the three  *)
(* version paths from the store again, as the last thing the accessor     *)
(* does, and a gated accessor reads them once more for its gate before    *)
(* anything else; the triple in the result is the one the store holds.    *)
(* On a closed File nothing is read.                                      *)
C16_VersionReadOnEveryCall ==
    /\ ctor.looked = <<>>
    /\ call.name \in Accessors =>
           /\ call.closed => call.looked = <<>>
           /\ (~call.closed /\ call.name = "version") =>
                  call.outcome = "ok" /\ call.looked = VersionPaths
           /\ (~call.closed /\ call.outcome = "ok") =>
                  /\ call.version = vers
                  /\ Len(call.looked) >= Len(VersionPaths)
                  /\ SubSeq(call.looked, Len(call.looked) - Len(VersionPaths) + 1,
                            Len(call.looked)) = VersionPaths
           /\ (~call.closed /\ call.name \in GatedAccessors) =>
                  /\ SubSeq(call.looked, 1, Len(VersionPaths)) = VersionPaths
                  /\ call.outcome = "ok" => Len(call.looked) > 2 * Len(VersionPaths)

C16_Witness ==
    /\ pc = "constructed"
    /\ ctor.outcome = "ok"
    /\ ctor.looked = <<>>
    /\ call.name = "structure"
    /\ ~call.closed
    /\ call.outcome = "ok"
    /\ call.version = vers
    /\ SubSeq(call.looked, Len(call.looked) - 2, Len(call.looked)) = VersionPaths

-----------------------------------------------------------------------------
(* Properties of Exciton.to_view (SpecExciton).                           *)

(* C11: for the expression "1+2" on an array of two or more excitons the  *)
(* map takes "1" to 0 and "2" to 1 (and is exactly that map for two       *)
(* excitons), one selection and so one grid quantity is produced, the     *)
(* label of the selection is "1+2" (and "2+1" for "2+1": the atoms joined *)
(* with "+" in input order), wrapped as source(label) only when the       *)
(* Exciton has a source selection, and the quantity is the point-by-point *)
(* sum of the grids at index 0 and index 1, transposed under one new      *)
(* leading axis.                                                          *)
C11_SelectionRoundTrip ==
    \A atoms \in {<<"1", "2">>, <<"2", "1">>} :
        LET expression == <<atoms[1], "+", atoms[2]>>
            data == exciton.exciton_charge.data
        IN (/\ viewer.outcome # "none"
            /\ viewer.selection = Str(expression)
            /\ exciton.exciton_charge # None
            /\ Len(data) >= 2) =>
               /\ _create_map(exciton)[<<"1">>] = 0
               /\ _create_map(exciton)[<<"2">>] = 1
               /\ Len(data) = 2 => DOMAIN _create_map(exciton) = {<<"1">>, <<"2">>}
               /\ selections(from_selection(viewer.selection)) = <<<<<<atoms[1]>>, <<atoms[2]>>>>>>
               /\ viewer.outcome = "ok"
               /\ Len(viewer.grid_scalars) = 1
               /\ viewer.grid_scalars[1].label
                      = IF exciton._selection = None
                        THEN expression
                        ELSE exciton._selection.chars \o <<"(">> \o expression \o <<")">>
               /\ viewer.grid_scalars[1].quantity
                      = <<[p \in {<<q[3], q[2], q[1]>> : q \in Points} |->
                              data[1][<<p[3], p[2], p[1]>>] + data[2][<<p[3], p[2], p[1]>>]]>>

C11_Witness ==
    /\ viewer.outcome = "ok"
    /\ viewer.selection = Str(<<"1", "+", "2">>)
    /\ exciton._selection = None
    /\ Len(exciton.exciton_charge.data) = 2
    /\ exciton.exciton_charge.data[1] # exciton.exciton_charge.data[2]
    /\ Len(viewer.grid_scalars) = 1
    /\ viewer.grid_scalars[1].label = <<"1", "+", "2">>
    /\ viewer.grid_scalars[1].quantity[1][<<1, 1, 2>>] = 2


(* C12: when an atom of the expression is not one of "1".."N" for the N   *)
(* excitons of the array ("5" or "0" for three excitons), to_view fails   *)
(* with a SelectionError that names an offending atom and the range       *)
(* [1, N], and it returns no viewer and so no grid quantity; when every   *)
(* atom is in the range the call succeeds.                                *)
C12_OutOfRangeAtom ==
    (viewer.outcome # "none" /\ exciton.exciton_charge # None) =>
        LET excitons == Len(exciton.exciton_charge.data)
            valid == {str(k) : k \in 1..excitons}
            chosen == IF viewer.selection \in {None, Str(<<>>)}
                      THEN Str(<<"1">>)
                      ELSE viewer.selection
            parsed == from_selection(chosen)
        IN IF \E i \in DOMAIN parsed :
                  \E j \in DOMAIN parsed[i] : parsed[i][j] \notin valid
           THEN /\ viewer.outcome = "SelectionError"
                /\ viewer.error.tag = "SelectionError"
                /\ \E i \in DOMAIN parsed :
                       \E j \in DOMAIN parsed[i] :
                           /\ parsed[i][j] \notin valid
                           /\ viewer.error.atom = parsed[i][j]
                /\ chosen.chars \in {<<"5">>, <<"0">>} =>
                       viewer.error.atom = chosen.chars
                /\ viewer.error.range = <<1, excitons>>
                /\ viewer.grid_scalars = <<>>
           ELSE viewer.outcome = "ok"

C12_Witness ==
    /\ viewer.outcome = "SelectionError"
    /\ viewer.selection = Str(<<"5">>)
    /\ Len(exciton.exciton_charge.data) = 3
    /\ viewer.error.atom = <<"5">>
    /\ viewer.error.range = <<1, 3>>
    /\ viewer.grid_scalars = <<>>

(* C17: to_view called with the selection None or "" returns what it     *)
(* returns for the selection "1" with the same other arguments: on an     *)
(* array with data, one grid quantity, the grid of the first exciton      *)
(* (index 0) transposed under one new leading axis, labelled "1" (wrapped *)
(* as source(1) when the Exciton has a source selection).                 *)
C17_EmptySelectionDefault ==
    (viewer.outcome # "none" /\ viewer.selection \in {None, Str(<<>>)}) =>
        LET explicit == to_view(exciton, Str(<<"1">>), viewer.supercell,
                                viewer.center, viewer.user_options)
        IN /\ viewer.outcome = explicit.outcome
           /\ viewer.error = explicit.error
           /\ viewer.grid_scalars = explicit.grid_scalars
           /\ viewer.shift = explicit.shift
           /\ exciton.exciton_charge # None =>
                  /\ viewer.outcome = "ok"
                  /\ Len(viewer.grid_scalars) = 1
                  /\ viewer.grid_scalars[1].quantity
                         = <<[p \in {<<q[3], q[2], q[1]>> : q \in Points} |->
                                 exciton.exciton_charge.data[1][<<p[3], p[2], p[1]>>]]>>
                  /\ viewer.grid_scalars[1].label
                         = IF exciton._selection = None
                           THEN <<"1">>
                           ELSE exciton._selection.chars \o <<"(", "1", ")">>

C17_Witness ==
    /\ viewer.outcome = "ok"
    /\ viewer.selection = Str(<<>>)
    /\ exciton._selection = None
    /\ Len(exciton.exciton_charge.data) = 2
    /\ exciton.exciton_charge.data[1] # exciton.exciton_charge.data[2]
    /\ Len(viewer.grid_scalars) = 1
    /\ viewer.grid_scalars[1].label = <<"1">>
    /\ viewer.grid_scalars[1].quantity[1][<<1, 1, 2>>]
           = exciton.exciton_charge.data[1][<<2, 1, 1>>]

-----------------------------------------------------------------------------
(* Properties of the magnetism functions (SpecMagnetism).                 *)

(* The number of steps of the array of the state, whether a function      *)
(* indexes the reader on it (moments and total_moments return None before *)
(* they index an array with one component), and the steps arguments the   *)
(* array rejects: an integer outside -N..N-1, a range that reaches beyond *)
(* step N-1, and a step that is no integer.                               *)
StepCount == Len(moments.data)
IndexesReader(function) ==
    ~(function \in {"moments", "total_moments"} /\ Len(moments.data[1]) = 1)
Malformed(steps) ==
    \/ steps.tag = "float"
    \/ steps.tag = "int" /\ (steps.of < -StepCount \/ steps.of >= StepCount)
    \/ steps.tag = "range" /\ steps.start < steps.stop /\ steps.stop > StepCount

C14_StepResolution ==
    read.function # "none" =>
        LET single(step) == Refinement(read.function, moments, Integer(step))
        IN /\ __len__(_Magnetism(moments)) = StepCount
           /\ _Magnetism(moments).shape[1] = StepCount
           /\ read.steps = None =>
                  /\ read.result = Refinement(read.function, moments, range(StepCount))
                  /\ IndexesReader(read.function) =>
                         /\ read.result.tag = "ndarray"
                         /\ Len(read.result.data) = StepCount
                         /\ \A i \in 1..StepCount :
                                read.result.data[i] = single(i - 1).data
           /\ read.steps = Integer(-1) =>
                  /\ read.result = single(StepCount - 1)
                  /\ read.function = "charges" =>
                         read.result.data = moments.data[StepCount][1]

C14_Witness ==
    /\ read.function = "total_moments"
    /\ read.steps = Integer(-1)
    /\ StepCount = 3
    /\ Len(moments.data[1]) = 4
    /\ moments.data[1] # moments.data[3]
    /\ read.result.tag = "ndarray"
    /\ read.result = _total_moments(moments, Integer(2))
    /\ read.result # _total_moments(moments, Integer(0))

-----------------------------------------------------------------------------
(* Properties of construction (SpecOpen).                                 *)

(* C9: a directory resolves to vaspout.h5 inside it and no filename to    *)
(* vaspout.h5; when the resolved file cannot be opened the constructor    *)
(* raises FileAccessError and there is no adapter, whatever other files   *)
(* exist.                                                                 *)
C9_OpenResolvesOrFails ==
    pc # "unopened" =>
        /\ ctor.filename \in Directories =>
               ctor.actual = ctor.filename \o "/vaspout.h5"
        /\ ctor.filename = NoFilename => ctor.actual = "vaspout.h5"
        /\ ctor.filename \in CandidateFiles => ctor.actual = ctor.filename
        /\ IF ctor.actual \in files
           THEN pc = "constructed" /\ ctor.outcome = "ok"
           ELSE /\ pc = "failed"
                /\ ctor.outcome = "FileAccessError"
                /\ ~h5open
                /\ call = NoCall

C9_Witness ==
    /\ pc = "failed"
    /\ ctor.filename = "calc"
    /\ ctor.outcome = "FileAccessError"
    /\ "calc/vaspout.h5" \notin files
    /\ {"vaspout.h5", "calc/other.h5"} \subseteq files

====
